---------------------------- MODULE Spec2Model ----------------------------
(***************************************************************************)
(* A model of gitlab-local-pipeline: the per-job execution engine          *)
(* (Job.start, Job.execScripts, Job.cleanupResources), the rule evaluator  *)
(* (Utils.getRulesResult, Utils.evaluateRuleIf) and the DAG scheduler.     *)
(*                                                                         *)
(* The specifications share the module's variables:                        *)
(*   Spec            one Job run by Job.start against a docker daemon      *)
(*   RulesSpec       Utils.getRulesResult applied to bounded rule lists    *)
(*   SchedSpec       the scheduler dispatching a bounded pipeline          *)
(*   CtorSpec        the constructor of Job                                *)
(*   NameSpec        Utils.safeJobName                                     *)
(*   TextSpec        Utils.expandText                                      *)
(*   StagesSpec      Utils.getJobNamesFromPreviousStages                   *)
(*   InvocationSpec  compilation, --needs and the staging of artifacts     *)
(*   TimerSpec       the silence timer of a running Job                    *)
(*   CacheSpec       the cache directories of concurrently running Jobs    *)
(***************************************************************************)
EXTENDS Integers, Sequences, FiniteSets, TLC

\* ------------------------------------------------------------------------
\* Bounds
\* ------------------------------------------------------------------------

\* Largest exit code a script's child process is modelled to exit with.
MaxExitCode == 2

\* Exit codes of a child process that ended by exiting.
ExitCodes == 0 .. MaxExitCode

\* null in a field that otherwise holds a number (an exit code, a
\* container id), and in one that otherwise holds a string.
Null == -1

NullString == "null"

\* ------------------------------------------------------------------------
\* State
\* ------------------------------------------------------------------------

VARIABLES
    \* --- the Job under Spec -------------------------------------------
    jobData,                \* the job description (Job.jobData, allowFailure)
    pc,                     \* position of Job.start
    phase,                  \* which execScripts call is in progress
    exitCode,               \* execScripts' local exitCode
    childCode,              \* << code >> of the exit event of the prescripts'
                            \* child process, << >> before it
    _running,
    _prescriptsExitCode,
    _afterScriptsExitCode,
    _coveragePercent,
    _containerId,
    _artifactsContainerId,
    _containerVolumeName,
    _longRunningSilentTimeout,  \* TRUE while the silence timer is armed
    containers,             \* docker: the containers that exist, id -> volume
    volumes,                \* docker: the named volumes that exist
    created,                \* every container id docker has handed out
    stderr,                 \* the notices written to writeStreams.stderr
    cleanups,               \* how many times cleanupResources was entered
    fault,                  \* TRUE once a command failed for a reason outside the Job
    \* --- Utils.getRulesResult under RulesSpec ---------------------------
    rules,
    variables,
    ruleResult,
    \* --- the scheduler under SchedSpec ----------------------------------
    pipeline,               \* per job: predecessors, when, allowFailure, ...
    jstate,                 \* per job: the JobRun state
    scriptFailed,           \* per job: its prescripts exited with a code > 0
    exited,                 \* TRUE once the scheduler has exited
    exitStatus,
    \* --- the Job constructor under CtorSpec -----------------------------
    ctorData,               \* opt.jobData handed to new Job(opt)
    job,                    \* the constructed Job, or the error thrown
    \* --- Utils.safeJobName under NameSpec -------------------------------
    jobName,                \* the job name, a sequence of characters
    safeName,               \* safeJobName(jobName) once called
    \* --- Utils.expandText under TextSpec --------------------------------
    text,                   \* the text, a sequence of characters
    scope,                  \* envs, the scope: name -> value, or Absent
    expanded,               \* expandText(text, envs) once called
    expandedTwice,          \* expandText(expanded, envs) once called
    \* --- Utils.getJobNamesFromPreviousStages under StagesSpec -----------
    gitlabData,             \* job name -> its stage, Undefined, or no entry
    currentJob,             \* the job whose predecessors are computed
    previousStages,         \* the job names returned, once called
    \* --- one invocation under InvocationSpec ----------------------------
    cfg,                    \* per job: its predecessors and `when`
    missingNeed,            \* the job that needs a name no job has, or 0
    selection,              \* the job the invocation names
    needsFlag,              \* --needs
    compile,                \* "pending", "ok" or "failed"
    compileError,           \* the error message of a failed compilation
    executed,               \* the jobs the invocation executes
    cstate,                 \* per job: the JobRun state
    artifactDirs,           \* the jobs whose artifact directory exists
    stagingFailed,          \* the jobs whose staging of artifacts failed
    \* --- the silence timer of a Job under TimerSpec ---------------------
    tstate,                 \* "idle", "running" (in execScripts) or "ended"
    timers,                 \* the pending timeouts: the time each has left
    timeoutHandle,          \* the time left of the timeout that
                            \* _longRunningSilentTimeout refers to, or Null
    sinceEvent,             \* the time since the last output or progress
                            \* event, Timeout standing for that or more
    stdoutLines,            \* the lines written to writeStreams.stdout
    stderrLines,            \* the lines written to writeStreams.stderr
    \* --- the cache directories under CacheSpec --------------------------
    cacheKeys,              \* per job: its cache key
    cacheUse                \* per job: where its container is

jobVars == << jobData, pc, phase, exitCode, childCode, _running, _prescriptsExitCode,
              _afterScriptsExitCode, _coveragePercent, _containerId,
              _artifactsContainerId, _containerVolumeName,
              _longRunningSilentTimeout, containers, volumes, created,
              stderr, cleanups, fault >>

rulesVars == << rules, variables, ruleResult >>

schedVars == << pipeline, jstate, scriptFailed, exited, exitStatus >>

ctorVars == << ctorData, job >>

\* The variables of the specifications that follow SchedSpec.
nameVars == << jobName, safeName >>

textVars == << text, scope, expanded, expandedTwice >>

stageVars == << gitlabData, currentJob, previousStages >>

invVars == << cfg, missingNeed, selection, needsFlag, compile,
             compileError, executed, cstate, artifactDirs, stagingFailed >>

timerVars == << tstate, timers, timeoutHandle, sinceEvent, stdoutLines,
               stderrLines >>

cacheVars == << cacheKeys, cacheUse >>

laterVars == << ctorVars, nameVars, textVars, stageVars, invVars, timerVars,
               cacheVars >>

vars == << jobVars, rulesVars, schedVars, laterVars >>


\* ------------------------------------------------------------------------
\* Job.start: the notices it writes and its early returns
\* ------------------------------------------------------------------------

Notice(kind, code, of) == [kind |-> kind, code |-> code, of |-> of]

\* PrescriptNotices without lines 203-205: with an after_script, a failed
\* prescript that is not allowed to fail writes no notice.
PrescriptNoticesNoLateFail(afterEmpty, code, allow) ==
    IF afterEmpty /\ code > 0 /\ ~allow
    THEN << Notice("FAIL", code, "prescript") >>
    ELSE IF code > 0 /\ allow
    THEN << Notice("WARN", code, "prescript") >>
    ELSE << >>

\* PrescriptNotices without the returns of lines 189 and 196: the early
\* branches fall through to lines 199-205, which write the notice again.
PrescriptNoticesNoReturn(afterEmpty, code, allow) ==
    (IF afterEmpty /\ code > 0
     THEN << Notice(IF allow THEN "WARN" ELSE "FAIL", code, "prescript") >>
     ELSE << >>)
    \o
    (IF code > 0
     THEN << Notice(IF allow THEN "WARN" ELSE "FAIL", code, "prescript") >>
     ELSE << >>)

\* PrescriptNotices with allowFailure ignored at lines 185 and 199: every
\* failed prescript writes FAIL.
PrescriptNoticesIgnoreAllow(afterEmpty, code, allow) ==
    IF code > 0 THEN << Notice("FAIL", code, "prescript") >> ELSE << >>

\* start(), lines 185-205: the prescript notices written to stderr, given
\* whether afterScripts is empty, the prescript exit code and allowFailure.
PrescriptNotices(afterEmpty, code, allow) ==
    IF afterEmpty /\ code > 0 /\ ~allow
    THEN << Notice("FAIL", code, "prescript") >>
    ELSE IF afterEmpty /\ code > 0 /\ allow
    THEN << Notice("WARN", code, "prescript") >>
    ELSE (IF code > 0 /\ allow
          THEN << Notice("WARN", code, "prescript") >> ELSE << >>)
         \o
         (IF code > 0 /\ ~allow
          THEN << Notice("FAIL", code, "prescript") >> ELSE << >>)

\* ReturnsEarly without the test of afterScripts.length at lines 185 and
\* 192: a failed prescript returns before the after_script.
ReturnsEarlyOnAnyFailure(afterEmpty, code) == code > 0

\* start(), lines 185-197: the two branches that clean up and return
\* before after_script, coverage and the finished line.
ReturnsEarly(afterEmpty, code) == afterEmpty /\ code > 0

\* AfterScriptNotices reporting the after_script's exit code the way the
\* prescripts' is reported without allowFailure.
AfterScriptNoticesAsFailure(code) ==
    IF code > 0 THEN << Notice("FAIL", code, "prescript") >> ELSE << >>

\* start(), lines 211-213: the after_script notice.
AfterScriptNotices(code) ==
    IF code > 0 THEN << Notice("WARN", code, "after_script") >> ELSE << >>

\* Utils.getCoveragePercent: "0" without a match, the first number of the
\* match, or null when the match holds no number.
getCoveragePercent(log) ==
    CASE log = "nomatch" -> "0"
      [] log = "number"  -> "number"
      [] OTHER           -> NullString

LogContents == { "nomatch", "number", "nonumber" }

\* ------------------------------------------------------------------------
\* Job: construction
\* ------------------------------------------------------------------------

\* The job descriptions a constructed Job can have.  script, after_script,
\* artifacts and producers say whether the list is non-empty.  The
\* constructor (lines 74-76) rejects an interactive job with an image.
JobDatas ==
    { d \in [ image : BOOLEAN, script : BOOLEAN, after_script : BOOLEAN,
              artifacts : BOOLEAN, producers : BOOLEAN,
              interactive : BOOLEAN, coverage : BOOLEAN,
              allowFailure : BOOLEAN ] :
        d.interactive => ~d.image }

\* ScriptsNonEmpty without the test of line 286.
ScriptsNonEmptyUntested == TRUE

\* The scripts of the execScripts call in progress are non-empty.
ScriptsNonEmpty == IF phase = "pre" THEN jobData.script ELSE jobData.after_script

\* A constructed Job with the description d: the field initialisers.
JobInit(d) ==
    /\ jobData = d
    /\ pc = "start"
    /\ phase = "pre"
    /\ exitCode = 0
    /\ childCode = << >>
    /\ _running = FALSE
    /\ _prescriptsExitCode = Null
    /\ _afterScriptsExitCode = 0
    /\ _coveragePercent = NullString
    /\ _containerId = Null
    /\ _artifactsContainerId = Null
    /\ _containerVolumeName = NullString
    /\ _longRunningSilentTimeout = FALSE
    /\ containers = {}
    /\ volumes = {}
    /\ created = 0
    /\ stderr = << >>
    /\ cleanups = 0
    /\ fault = FALSE

\* The name of the Job's volume, gcl-<safeJobName>-<jobId>: the same in
\* every execScripts call of one Job.
VolumeName == "gcl"

\* ------------------------------------------------------------------------
\* Job.start and Job.execScripts, one action per awaited step
\* ------------------------------------------------------------------------

\* A rejected promise inside start() or execScripts(): neither has a
\* try/catch, so the error leaves start().
Throw ==
    /\ pc' = "threw"
    /\ fault' = TRUE

\* start(), lines 164-181: _running, the log file, rsync of a shell job.
StartBegin ==
    /\ pc = "start"
    /\ _running' = TRUE
    /\ \/ /\ pc' = "exec"
          /\ UNCHANGED fault
       \/ /\ ~jobData.image          \* rsyncNonIgnoredFilesToBuilds fails
          /\ Throw
    /\ UNCHANGED << jobData, childCode, phase, exitCode, _prescriptsExitCode,
                    _afterScriptsExitCode, _coveragePercent, _containerId,
                    _artifactsContainerId, _containerVolumeName,
                    _longRunningSilentTimeout, containers, volumes, created,
                    stderr, cleanups >>

\* execScripts(), lines 286-310: the empty script list, the interactive
\* branch, the first timer refresh.
ExecBegin ==
    /\ pc = "exec"
    /\ IF ~ScriptsNonEmpty
       THEN /\ pc' = "return"
            /\ exitCode' = 0
            /\ UNCHANGED _longRunningSilentTimeout
       ELSE IF jobData.interactive
       THEN /\ pc' = "interactive"
            /\ UNCHANGED << exitCode, _longRunningSilentTimeout >>
       ELSE /\ _longRunningSilentTimeout' = TRUE
            /\ pc' = IF jobData.image THEN "pull" ELSE "stage"
            /\ UNCHANGED exitCode
    /\ UNCHANGED << jobData, childCode, phase, _running, _prescriptsExitCode,
                    _afterScriptsExitCode, _coveragePercent, _containerId,
                    _artifactsContainerId, _containerVolumeName, containers,
                    volumes, created, stderr, cleanups, fault >>

\* The exit code a child process's "exit" event resolves to: code ?? 0.
\* A process ended by a signal reports the code null.
ChildResults == ExitCodes \cup { Null }

resolveCode(code) == IF code = Null THEN 0 ELSE code

\* execScripts(), lines 297-305: the interactive child process.
Interactive ==
    /\ pc = "interactive"
    /\ \/ \E code \in ChildResults :
            /\ exitCode' = resolveCode(code)
            /\ childCode' = IF phase = "pre" THEN << code >> ELSE childCode
            /\ pc' = "return"
            /\ UNCHANGED fault
       \/ /\ Throw
          /\ UNCHANGED << exitCode, childCode >>
    /\ UNCHANGED << jobData, phase, _running, _prescriptsExitCode,
                    _afterScriptsExitCode, _coveragePercent, _containerId,
                    _artifactsContainerId, _containerVolumeName,
                    _longRunningSilentTimeout, containers, volumes, created,
                    stderr, cleanups >>

\* execScripts(), lines 311-330: docker pull, then the volume's name.
Pull ==
    /\ pc = "pull"
    /\ \/ /\ _containerVolumeName' = VolumeName
          /\ pc' = "volume"
          /\ UNCHANGED fault
       \/ /\ Throw
          /\ UNCHANGED _containerVolumeName
    /\ UNCHANGED << jobData, childCode, phase, exitCode, _running, _prescriptsExitCode,
                    _afterScriptsExitCode, _coveragePercent, _containerId,
                    _artifactsContainerId, _longRunningSilentTimeout,
                    containers, volumes, created, stderr, cleanups >>

\* execScripts(), line 331: docker volume create (a no-op on a volume
\* that exists).
VolumeCreate ==
    /\ pc = "volume"
    /\ \/ /\ volumes' = volumes \cup { _containerVolumeName }
          /\ pc' = "create"
          /\ UNCHANGED fault
       \/ /\ Throw
          /\ UNCHANGED volumes
    /\ UNCHANGED << jobData, childCode, phase, exitCode, _running, _prescriptsExitCode,
                    _afterScriptsExitCode, _coveragePercent, _containerId,
                    _artifactsContainerId, _containerVolumeName,
                    _longRunningSilentTimeout, containers, created, stderr,
                    cleanups >>

\* execScripts(), lines 377-378: docker create, bound to the volume; the
\* new id is stored in _containerId.
ContainerCreate ==
    /\ pc = "create"
    /\ \/ /\ created' = created + 1
          /\ containers' = containers \cup { created + 1 }
          /\ _containerId' = created + 1
          /\ pc' = "copy"
          /\ UNCHANGED fault
       \/ /\ Throw
          /\ UNCHANGED << created, containers, _containerId >>
    /\ UNCHANGED << jobData, childCode, phase, exitCode, _running, _prescriptsExitCode,
                    _afterScriptsExitCode, _coveragePercent,
                    _artifactsContainerId, _containerVolumeName,
                    _longRunningSilentTimeout, volumes, stderr, cleanups >>

\* execScripts(), lines 381-384: docker cp of the sources.
CopySource ==
    /\ pc = "copy"
    /\ \/ /\ pc' = "stage"
          /\ UNCHANGED fault
       \/ Throw
    /\ UNCHANGED << jobData, childCode, phase, exitCode, _running, _prescriptsExitCode,
                    _afterScriptsExitCode, _coveragePercent, _containerId,
                    _artifactsContainerId, _containerVolumeName,
                    _longRunningSilentTimeout, containers, volumes, created,
                    stderr, cleanups >>

\* execScripts(), lines 387-404: staging the producers' artifacts: the
\* copy fails, or (shell) the assertion on the artifact directory fails.
StageArtifacts ==
    /\ pc = "stage"
    /\ \/ /\ pc' = IF jobData.image THEN "chown" ELSE "init"
          /\ UNCHANGED fault
       \/ /\ jobData.producers
          /\ Throw
    /\ UNCHANGED << jobData, childCode, phase, exitCode, _running, _prescriptsExitCode,
                    _afterScriptsExitCode, _coveragePercent, _containerId,
                    _artifactsContainerId, _containerVolumeName,
                    _longRunningSilentTimeout, containers, volumes, created,
                    stderr, cleanups >>

\* execScripts(), line 414: docker run --rm ... chown (its container
\* removes itself).
Chown ==
    /\ pc = "chown"
    /\ \/ /\ pc' = "init"
          /\ UNCHANGED fault
       \/ Throw
    /\ UNCHANGED << jobData, childCode, phase, exitCode, _running, _prescriptsExitCode,
                    _afterScriptsExitCode, _coveragePercent, _containerId,
                    _artifactsContainerId, _containerVolumeName,
                    _longRunningSilentTimeout, containers, volumes, created,
                    stderr, cleanups >>

\* execScripts(), lines 421-426: gcl-init written, and copied into the
\* container.
WriteInit ==
    /\ pc = "init"
    /\ \/ /\ pc' = "run"
          /\ UNCHANGED fault
       \/ /\ jobData.image
          /\ Throw
    /\ UNCHANGED << jobData, childCode, phase, exitCode, _running, _prescriptsExitCode,
                    _afterScriptsExitCode, _coveragePercent, _containerId,
                    _artifactsContainerId, _containerVolumeName,
                    _longRunningSilentTimeout, containers, volumes, created,
                    stderr, cleanups >>

\* execScripts(), lines 428-458: the script's child process ends.
RunScript ==
    /\ pc = "run"
    /\ \/ \E code \in ChildResults :
            /\ exitCode' = resolveCode(code)
            /\ childCode' = IF phase = "pre" THEN << code >> ELSE childCode
            /\ pc' = IF jobData.artifacts
                     THEN (IF jobData.image THEN "artifacts" ELSE "harvest")
                     ELSE "return"
            /\ UNCHANGED fault
       \/ /\ Throw
          /\ UNCHANGED << exitCode, childCode >>
    /\ UNCHANGED << jobData, phase, _running, _prescriptsExitCode,
                    _afterScriptsExitCode, _coveragePercent, _containerId,
                    _artifactsContainerId, _containerVolumeName,
                    _longRunningSilentTimeout, containers, volumes, created,
                    stderr, cleanups >>

\* execScripts(), lines 472-473: docker create of the artifacts
\* container, bound to the volume; its id is stored.
ArtifactsCreate ==
    /\ pc = "artifacts"
    /\ \/ /\ created' = created + 1
          /\ containers' = containers \cup { created + 1 }
          /\ _artifactsContainerId' = created + 1
          /\ pc' = "harvest"
          /\ UNCHANGED fault
       \/ /\ Throw
          /\ UNCHANGED << created, containers, _artifactsContainerId >>
    /\ UNCHANGED << jobData, childCode, phase, exitCode, _running, _prescriptsExitCode,
                    _afterScriptsExitCode, _coveragePercent, _containerId,
                    _containerVolumeName, _longRunningSilentTimeout, volumes,
                    stderr, cleanups >>

\* execScripts(), lines 474-480: the artifacts are copied out (docker
\* start and docker cp, or the shell's cp).
Harvest ==
    /\ pc = "harvest"
    /\ \/ /\ pc' = "return"
          /\ UNCHANGED fault
       \/ Throw
    /\ UNCHANGED << jobData, childCode, phase, exitCode, _running, _prescriptsExitCode,
                    _afterScriptsExitCode, _coveragePercent, _containerId,
                    _artifactsContainerId, _containerVolumeName,
                    _longRunningSilentTimeout, containers, volumes, created,
                    stderr, cleanups >>


\* start(), lines 184-209: execScripts returns.  After the prescripts the
\* notices are written and start() either returns early (through
\* cleanupResources), runs the after_script, or goes on to finish.
Return ==
    /\ pc = "return"
    /\ IF phase = "pre"
       THEN /\ _prescriptsExitCode' = exitCode
            /\ stderr' = stderr \o PrescriptNotices(~jobData.after_script,
                                                    exitCode,
                                                    jobData.allowFailure)
            /\ IF ReturnsEarly(~jobData.after_script, exitCode)
               THEN pc' = "cleanup" /\ UNCHANGED phase
               ELSE IF jobData.after_script
               THEN pc' = "exec" /\ phase' = "after"
               ELSE pc' = "finish" /\ UNCHANGED phase
            /\ UNCHANGED _afterScriptsExitCode
       ELSE /\ _afterScriptsExitCode' = exitCode
            /\ pc' = "finish"
            /\ UNCHANGED << _prescriptsExitCode, stderr, phase >>
    /\ UNCHANGED << jobData, childCode, exitCode, _running, _coveragePercent,
                    _containerId, _artifactsContainerId,
                    _containerVolumeName, _longRunningSilentTimeout,
                    containers, volumes, created, cleanups, fault >>

\* start(), lines 211-219: the after_script notice, the finished line,
\* the coverage read from the log.
Finish ==
    /\ pc = "finish"
    /\ stderr' = stderr \o AfterScriptNotices(_afterScriptsExitCode)
    /\ IF jobData.coverage
       THEN \E log \in LogContents :
                _coveragePercent' = getCoveragePercent(log)
       ELSE UNCHANGED _coveragePercent
    /\ pc' = "cleanup"
    /\ UNCHANGED << jobData, childCode, phase, exitCode, _running, _prescriptsExitCode,
                    _afterScriptsExitCode, _containerId,
                    _artifactsContainerId, _containerVolumeName,
                    _longRunningSilentTimeout, containers, volumes, created,
                    cleanups, fault >>

\* ------------------------------------------------------------------------
\* Job.cleanupResources
\* ------------------------------------------------------------------------

CleanupWarning == Notice("WARN", 0, "cleanup")

\* cleanupResources(), lines 225-227: entered, the timer cleared.
Cleanup ==
    /\ pc = "cleanup"
    /\ cleanups' = cleanups + 1
    /\ _longRunningSilentTimeout' = FALSE
    /\ pc' = "rm_container"
    /\ UNCHANGED << jobData, childCode, phase, exitCode, _running, _prescriptsExitCode,
                    _afterScriptsExitCode, _coveragePercent, _containerId,
                    _artifactsContainerId, _containerVolumeName, containers,
                    volumes, created, stderr, fault >>

\* RemoveContainer without the try/catch of lines 230-234: a failed
\* removal leaves cleanupResources as an error.
RemoveContainerPropagating ==
    /\ pc = "rm_container"
    /\ IF _containerId = Null
       THEN pc' = "rm_artifacts" /\ UNCHANGED << containers, fault >>
       ELSE \/ /\ containers' = containers \ { _containerId }
               /\ pc' = "rm_artifacts"
               /\ UNCHANGED fault
            \/ /\ Throw
               /\ UNCHANGED containers
    /\ UNCHANGED << jobData, childCode, phase, exitCode, _running,
                    _prescriptsExitCode, _afterScriptsExitCode,
                    _coveragePercent, _containerId, _artifactsContainerId,
                    _containerVolumeName, _longRunningSilentTimeout, volumes,
                    created, stderr, cleanups >>

\* cleanupResources(), lines 229-235: docker rm -f of _containerId.
RemoveContainer ==
    /\ pc = "rm_container"
    /\ IF _containerId = Null
       THEN UNCHANGED << containers, stderr, fault >>
       ELSE \/ /\ containers' = containers \ { _containerId }
               /\ UNCHANGED << stderr, fault >>
            \/ /\ stderr' = Append(stderr, CleanupWarning)
               /\ fault' = TRUE
               /\ UNCHANGED containers
    /\ pc' = "rm_artifacts"
    /\ UNCHANGED << jobData, childCode, phase, exitCode, _running, _prescriptsExitCode,
                    _afterScriptsExitCode, _coveragePercent, _containerId,
                    _artifactsContainerId, _containerVolumeName,
                    _longRunningSilentTimeout, volumes, created, cleanups >>

\* cleanupResources(), lines 237-243: docker rm -f of
\* _artifactsContainerId.
RemoveArtifactsContainer ==
    /\ pc = "rm_artifacts"
    /\ IF _artifactsContainerId = Null
       THEN UNCHANGED << containers, stderr, fault >>
       ELSE \/ /\ containers' = containers \ { _artifactsContainerId }
               /\ UNCHANGED << stderr, fault >>
            \/ /\ stderr' = Append(stderr, CleanupWarning)
               /\ fault' = TRUE
               /\ UNCHANGED containers
    /\ pc' = "rm_volume"
    /\ UNCHANGED << jobData, childCode, phase, exitCode, _running, _prescriptsExitCode,
                    _afterScriptsExitCode, _coveragePercent, _containerId,
                    _artifactsContainerId, _containerVolumeName,
                    _longRunningSilentTimeout, volumes, created, cleanups >>

\* docker refuses to remove a volume a container is bound to.  Every
\* container of the Job is bound to the Job's volume.
VolumeInUse == containers # {}

\* cleanupResources(), lines 245-251: docker volume rm.
RemoveVolume ==
    /\ pc = "rm_volume"
    /\ IF _containerVolumeName = NullString
       THEN UNCHANGED << volumes, stderr, fault >>
       ELSE IF VolumeInUse
       THEN /\ stderr' = Append(stderr, CleanupWarning)
            /\ UNCHANGED << volumes, fault >>
       ELSE \/ /\ volumes' = volumes \ { _containerVolumeName }
               /\ UNCHANGED << stderr, fault >>
            \/ /\ stderr' = Append(stderr, CleanupWarning)
               /\ fault' = TRUE
               /\ UNCHANGED volumes
    /\ pc' = "end"
    /\ UNCHANGED << jobData, childCode, phase, exitCode, _running, _prescriptsExitCode,
                    _afterScriptsExitCode, _coveragePercent, _containerId,
                    _artifactsContainerId, _containerVolumeName,
                    _longRunningSilentTimeout, containers, created,
                    cleanups >>

\* start(), lines 188-189, 195-196, 222: _running cleared, start() ends.
End ==
    /\ pc = "end"
    /\ _running' = FALSE
    /\ pc' = "done"
    /\ UNCHANGED << jobData, childCode, phase, exitCode, _prescriptsExitCode,
                    _afterScriptsExitCode, _coveragePercent, _containerId,
                    _artifactsContainerId, _containerVolumeName,
                    _longRunningSilentTimeout, containers, volumes, created,
                    stderr, cleanups, fault >>

\* ------------------------------------------------------------------------
\* The outcome of a completed run
\* ------------------------------------------------------------------------

\* The prescript notices among the notices written.
PrescriptNoticesOf(notices) ==
    SelectSeq(notices, LAMBDA n : n.of = "prescript")

\* How start() reports a completed run (lines 185-215): Failed with a FAIL
\* notice for the prescripts, WarnedFailure with a WARN notice for them,
\* Succeeded when it only writes the finished line; the after_script's
\* notice is a warning beside it.
OutcomeOf(notices) ==
    IF \E i \in DOMAIN notices :
           notices[i].of = "prescript" /\ notices[i].kind = "FAIL"
    THEN "Failed"
    ELSE IF \E i \in DOMAIN notices :
           notices[i].of = "prescript" /\ notices[i].kind = "WARN"
    THEN "WarnedFailure"
    ELSE "Succeeded"

Outcome == OutcomeOf(stderr)

\* start() has ended, by returning or by an error that left it.
StartEnded == pc \in { "done", "threw" }

\* start() has returned: the run is completed.
Completed == pc = "done"

\* ------------------------------------------------------------------------
\* Utils.evaluateRuleIf
\* ------------------------------------------------------------------------

\* A variable the scope does not define.
Undefined == "undefined"

\* The variables a rule names and the values a scope gives them.
Names == { "A", "B" }

Scopes ==
    { sc \in [ Names -> { Undefined, "", "a" } ] : sc["B"] # "" }

\* A sub-rule: one comparison of an `if`, the text between two && / ||.
\*   var      $NAME                true       the literal true
\*   eq       $NAME == 'a'         neq        $NAME != 'a'
\*   match    $NAME =~ /a/         nomatch    $NAME !~ /a/
SubRule(kind, name) == [ kind |-> kind, name |-> name ]

\* The regular expression /a/ applied to a value.
Matches(value) == value = "a"

\* What one sub-rule of the rewritten expression evaluates to when eval()
\* reaches it (lines 152-176): "true", "false", or "error" for the
\* TypeError of null.match(...).  `lead` says that the sub-rule's text
\* starts with white space, as the text after "&& " does: the test /^null/
\* of lines 164 and 167 then does not see the null.
subEval(sub, lead, envs) ==
    LET value == envs[sub.name]
    IN  CASE sub.kind = "true" -> "true"
          [] sub.kind = "nomatch" ->
                IF value = Undefined
                THEN (IF lead THEN "error" ELSE "false")
                ELSE (IF ~Matches(value) THEN "true" ELSE "false")
          [] sub.kind = "match" ->
                IF value = Undefined
                THEN (IF lead THEN "error" ELSE "false")
                ELSE (IF Matches(value) THEN "true" ELSE "false")
          [] sub.kind = "eq" ->
                IF value # Undefined /\ value = "a" THEN "true" ELSE "false"
          [] sub.kind = "neq" ->
                IF value = Undefined \/ value # "a" THEN "true" ELSE "false"
          [] OTHER ->
                IF value = Undefined \/ value = "" THEN "false" ELSE "true"

\* The last sub-rule of the run of && that starts at sub-rule i.
RECURSIVE AndGroupEnd(_, _)
AndGroupEnd(ops, i) ==
    IF i <= Len(ops) /\ ops[i] = "&&" THEN AndGroupEnd(ops, i + 1) ELSE i

\* JavaScript's a && b && ...: the operands from i to j in order, stopping
\* at the first that is false.
RECURSIVE JsAnd(_, _, _)
JsAnd(vals, i, j) ==
    IF vals[i] # "true" THEN vals[i]
    ELSE IF i = j THEN "true"
    ELSE JsAnd(vals, i + 1, j)

\* eval() of the rewritten expression (line 190): JavaScript gives &&
\* precedence over || and evaluates each with short circuit.
RECURSIVE JsEval(_, _, _)
JsEval(vals, ops, i) ==
    LET j == AndGroupEnd(ops, i)
        g == JsAnd(vals, i, j)
    IN  IF g # "false" THEN g
        ELSE IF j = Len(vals) THEN "false"
        ELSE JsEval(vals, ops, j + 1)

\* An `if`: its sub-rules, the operators between them, and whether the
\* operators are written with spaces around them.
RuleIf(subs, ops, spaced) == [ subs |-> subs, ops |-> ops, spaced |-> spaced ]

\* Utils.evaluateRuleIf(ruleIf, envs).
evaluateRuleIf(ruleIf, envs) ==
    LET vals == [ i \in 1 .. Len(ruleIf.subs) |->
                    subEval(ruleIf.subs[i], ruleIf.spaced /\ i > 1, envs) ]
    IN  JsEval(vals, ruleIf.ops, 1)

\* ------------------------------------------------------------------------
\* Utils.getRulesResult
\* ------------------------------------------------------------------------

\* An `if` that is absent: rule.if || "true" (line 141).
TrueIf == RuleIf(<< SubRule("true", "A") >>, << >>, FALSE)

\* Most rules in a list.
MaxRules == 2

\* The `if` texts the rule lists are drawn from:
\*   $A      $A == 'a'      $A != 'a'      $B =~ /a/
\*   $A == 'a' && $B =~ /a/      $B !~ /a/ || $A      $A&&$B =~ /a/
\*   $A || $B == 'a' && $A != 'a'
RuleIfs ==
    { RuleIf(<< SubRule("var", "A") >>, << >>, FALSE),
      RuleIf(<< SubRule("eq", "A") >>, << >>, FALSE),
      RuleIf(<< SubRule("neq", "A") >>, << >>, FALSE),
      RuleIf(<< SubRule("match", "B") >>, << >>, FALSE),
      RuleIf(<< SubRule("eq", "A"), SubRule("match", "B") >>, << "&&" >>, TRUE),
      RuleIf(<< SubRule("nomatch", "B"), SubRule("var", "A") >>, << "||" >>, TRUE),
      RuleIf(<< SubRule("var", "A"), SubRule("match", "B") >>, << "&&" >>, FALSE),
      RuleIf(<< SubRule("var", "A"), SubRule("eq", "B"), SubRule("neq", "A") >>,
             << "||", "&&" >>, TRUE) }

\* A rule: `if` ("absent" and then no text), `when` ("" when absent) and
\* allow_failure (Undefined when absent).
Rules ==
    [ absent : { FALSE }, if : RuleIfs,
      when : { "", "manual" }, allow_failure : { Undefined, "true" } ]
    \cup
    [ absent : { TRUE }, if : { TrueIf },
      when : { "", "manual" }, allow_failure : { Undefined, "true" } ]

RuleLists == UNION { [ 1 .. n -> Rules ] : n \in 0 .. MaxRules }

\* The result of a call: called, whether it threw, and {when, allowFailure}.
Result(when, allowFailure) ==
    [ called |-> TRUE, threw |-> FALSE, when |-> when,
      allowFailure |-> allowFailure ]

Threw == [ called |-> TRUE, threw |-> TRUE, when |-> "", allowFailure |-> FALSE ]

NoResult == [ called |-> FALSE, threw |-> FALSE, when |-> "", allowFailure |-> FALSE ]

\* Lines 142-143: the matching rule's when and allow_failure, defaulted.
RuleOutcome(rule) ==
    Result(IF rule.when # "" THEN rule.when ELSE "on_success",
           IF rule.allow_failure = Undefined THEN FALSE
           ELSE rule.allow_failure = "true")

\* Utils.getRulesResult: the loop of lines 140-146 from rule i on, which
\* stops at the first rule whose `if` is truthy.
RECURSIVE RulesLoop(_, _, _)
RulesLoop(rs, vs, i) ==
    IF i > Len(rs) THEN Result("never", FALSE)
    ELSE LET e == evaluateRuleIf(rs[i].if, vs)
         IN  IF e = "error" THEN Threw
             ELSE IF e = "true" THEN RuleOutcome(rs[i])
             ELSE RulesLoop(rs, vs, i + 1)

getRulesResult(rs, vs) == RulesLoop(rs, vs, 1)

\* ------------------------------------------------------------------------
\* RulesSpec: Utils.getRulesResult on a rule list and a scope
\* ------------------------------------------------------------------------

RulesInit ==
    /\ rules \in RuleLists
    /\ variables \in Scopes
    /\ ruleResult = NoResult

CallGetRulesResult ==
    /\ ~ruleResult.called
    /\ ruleResult' = getRulesResult(rules, variables)
    /\ UNCHANGED << rules, variables >>

\* ------------------------------------------------------------------------
\* The DAG scheduler (spec 4.F)
\* ------------------------------------------------------------------------

\* Jobs in a pipeline.
NJobs == 3

Jobs == 1 .. NJobs

\* A job of the pipeline: its predecessors (its needs, or the jobs of the
\* earlier stages), `when` after rule evaluation, whether the invocation
\* names it explicitly, and allowFailure.
JobConfigs(j) ==
    { c \in [ preds : SUBSET (1 .. j - 1),
              when : { "on_success", "manual", "never" },
              explicit : BOOLEAN,
              allowFailure : BOOLEAN ] :
        /\ c.explicit => c.when = "manual"
        /\ c.allowFailure => c.when = "on_success" }

\* The pipelines of the jobs 1 .. n, job j configured from JobConfigs(j).
RECURSIVE PipelinesOf(_)
PipelinesOf(n) ==
    IF n = 0 THEN { << >> }
    ELSE { Append(pl, c) : pl \in PipelinesOf(n - 1), c \in JobConfigs(n) }

Pipelines == PipelinesOf(NJobs)

\* A manual job runs only when the invocation names it.
ManualUnselected(pl, j) == pl[j].when = "manual" /\ ~pl[j].explicit

\* The jobs the invocation selects.
Selected(pl, j) == ~ManualUnselected(pl, j)

\* The states a predecessor must have reached for its successors to run.
Terminal == { "Succeeded", "WarnedFailure", "Skipped" }

\* Blockers as they would be if a job waited for no predecessor.
BlockersNone(pl, j) == {}

\* Blockers as they would be if a manual job that is not selected blocked
\* its successors like any other predecessor.
BlockersAllPreds(pl, j) == pl[j].preds

\* The predecessors a job waits for: a manual job that is not explicitly
\* selected stays Pending and is not a predecessor blocker.
Blockers(pl, j) == { p \in pl[j].preds : ~ManualUnselected(pl, p) }

\* A predecessor in Failed.
HasFailedPred(pl, st, j) == \E p \in pl[j].preds : st[p] = "Failed"

\* One pass of the dispatch policy over the Pending jobs that are
\* selected: Skipped with a predecessor in Failed, Eligible when every
\* predecessor it waits for is terminal.
SettleOnce(pl, st) ==
    [ j \in Jobs |->
        IF st[j] # "Pending" \/ ~Selected(pl, j) THEN st[j]
        ELSE IF HasFailedPred(pl, st, j) THEN "Skipped"
        ELSE IF \A p \in Blockers(pl, j) : st[p] \in Terminal THEN "Eligible"
        ELSE "Pending" ]

\* The dispatch policy applied until nothing changes.
RECURSIVE Settle(_, _)
Settle(pl, st) ==
    LET next == SettleOnce(pl, st)
    IN  IF next = st THEN st ELSE Settle(pl, next)

\* Jobs with when == "never" start in Skipped, the others in Pending.
InitialStates(pl) ==
    [ j \in Jobs |-> IF pl[j].when = "never" THEN "Skipped" ELSE "Pending" ]

SchedInit ==
    /\ pipeline \in Pipelines
    /\ jstate = Settle(pipeline, InitialStates(pipeline))
    /\ scriptFailed = [ j \in Jobs |-> FALSE ]
    /\ exited = FALSE
    /\ exitStatus = 0

\* An Eligible job is dispatched: its scripts start.
Dispatch(j) ==
    /\ ~exited
    /\ jstate[j] = "Eligible"
    /\ jstate' = [ jstate EXCEPT ![j] = "Running" ]
    /\ UNCHANGED << pipeline, scriptFailed, exited, exitStatus >>

\* The outcome of a run by Job.start: what its notices say.
RunOutcome(afterEmpty, code, allow) ==
    OutcomeOf(PrescriptNotices(afterEmpty, code, allow))

\* What a run can report to the scheduler: whether the prescripts exited
\* with a code > 0, and the outcome, over every exit code and with or
\* without an after_script.
RunResults(allow) ==
    { [ failed |-> code > 0, outcome |-> RunOutcome(afterEmpty, code, allow) ] :
        code \in ExitCodes, afterEmpty \in BOOLEAN }

\* A Running job's start() returns; the dispatch policy is applied to the
\* jobs that waited for it.
FinishJob(j) ==
    /\ ~exited
    /\ jstate[j] = "Running"
    /\ \E r \in RunResults(pipeline[j].allowFailure) :
          /\ scriptFailed' = [ scriptFailed EXCEPT ![j] = r.failed ]
          /\ jstate' = Settle(pipeline,
                              [ jstate EXCEPT ![j] = r.outcome ])
    /\ UNCHANGED << pipeline, exited, exitStatus >>

\* The exit status that reports a Failed job as a success.
ExitStatusIgnoringFailed(pl, st) ==
    IF \A j \in Jobs : Selected(pl, j) => st[j] \in Terminal \cup { "Failed" }
    THEN 0 ELSE 1

\* Exit status: 0 iff every selected Job is Succeeded, WarnedFailure or
\* Skipped.
ExitStatus(pl, st) ==
    IF \A j \in Jobs : Selected(pl, j) => st[j] \in Terminal THEN 0 ELSE 1

\* An exit guard that does not wait for the Running jobs.
MayExitWhileRunning(st) == \A j \in Jobs : st[j] # "Eligible"

\* The scheduler exits when no Job is Running and none is Eligible.
MayExit(st) == \A j \in Jobs : st[j] \notin { "Running", "Eligible" }

Exit ==
    /\ ~exited
    /\ MayExit(jstate)
    /\ exited' = TRUE
    /\ exitStatus' = ExitStatus(pipeline, jstate)
    /\ UNCHANGED << pipeline, jstate, scriptFailed >>

\* ------------------------------------------------------------------------
\* Values the other specifications' variables keep under Spec
\* ------------------------------------------------------------------------

RulesIdle ==
    /\ rules = << >>
    /\ variables = << >>
    /\ ruleResult = NoResult

SchedIdle ==
    /\ pipeline = << >>
    /\ jstate = << >>
    /\ scriptFailed = << >>
    /\ exited = FALSE
    /\ exitStatus = 0

CtorIdle ==
    /\ ctorData = << >>
    /\ job = << >>

NameIdle ==
    /\ jobName = << >>
    /\ safeName = << >>

TextIdle ==
    /\ text = << >>
    /\ scope = << >>
    /\ expanded = << >>
    /\ expandedTwice = << >>

StagesIdle ==
    /\ gitlabData = << >>
    /\ currentJob = ""
    /\ previousStages = {}

InvIdle ==
    /\ cfg = << >>
    /\ missingNeed = 0
    /\ selection = 0
    /\ needsFlag = FALSE
    /\ compile = "pending"
    /\ compileError = << >>
    /\ executed = {}
    /\ cstate = << >>
    /\ artifactDirs = {}
    /\ stagingFailed = {}

\* The Job of TimerSpec, constructed and not started: the field
\* initialiser of line 40, nothing written.
TimerIdle ==
    /\ tstate = "idle"
    /\ timers = {}
    /\ timeoutHandle = Null
    /\ sinceEvent = 0
    /\ stdoutLines = << >>
    /\ stderrLines = << >>

CacheIdle ==
    /\ cacheKeys = << >>
    /\ cacheUse = << >>

LaterIdle ==
    /\ CtorIdle
    /\ NameIdle
    /\ TextIdle
    /\ StagesIdle
    /\ InvIdle
    /\ TimerIdle
    /\ CacheIdle

\* ------------------------------------------------------------------------
\* Spec: one run of Job.start
\* ------------------------------------------------------------------------

Init ==
    /\ \E d \in JobDatas : JobInit(d)
    /\ RulesIdle
    /\ SchedIdle
    /\ LaterIdle

\* The variables of the other specifications, which a step of Spec leaves alone.
otherVars == << rulesVars, schedVars, laterVars >>

Next ==
    \/ StartBegin /\ UNCHANGED otherVars
    \/ ExecBegin /\ UNCHANGED otherVars
    \/ Interactive /\ UNCHANGED otherVars
    \/ Pull /\ UNCHANGED otherVars
    \/ VolumeCreate /\ UNCHANGED otherVars
    \/ ContainerCreate /\ UNCHANGED otherVars
    \/ CopySource /\ UNCHANGED otherVars
    \/ StageArtifacts /\ UNCHANGED otherVars
    \/ Chown /\ UNCHANGED otherVars
    \/ WriteInit /\ UNCHANGED otherVars
    \/ RunScript /\ UNCHANGED otherVars
    \/ ArtifactsCreate /\ UNCHANGED otherVars
    \/ Harvest /\ UNCHANGED otherVars
    \/ Return /\ UNCHANGED otherVars
    \/ Finish /\ UNCHANGED otherVars
    \/ Cleanup /\ UNCHANGED otherVars
    \/ RemoveContainer /\ UNCHANGED otherVars
    \/ RemoveArtifactsContainer /\ UNCHANGED otherVars
    \/ RemoveVolume /\ UNCHANGED otherVars
    \/ End /\ UNCHANGED otherVars

Spec == Init /\ [][Next]_vars


\* ------------------------------------------------------------------------
\* C1, C2: cleanup on every exit path
\* ------------------------------------------------------------------------

\* C1: every exit path from Job.start() reaches cleanupResources before
\* start() finishes, an error raised while provisioning, staging, running
\* or harvesting included.
C1_EveryExitReachesCleanup == StartEnded => cleanups >= 1

\* C2: at the end of start() the primary container, the artifacts
\* container and the volume of the Job do not exist, whatever the job
\* description.  Stated for the runs in which no command failed for a
\* reason outside the Job.
C2_NoResourceLeftAtEnd ==
    (Completed /\ ~fault) => (containers = {} /\ volumes = {})

\* ------------------------------------------------------------------------
\* C9, C10: the outcome of a completed run
\* ------------------------------------------------------------------------

\* C9 as claimed: a completed run is Succeeded iff its prescript exit code
\* is 0 and its after_script is absent or exited with 0.
C9_SucceededIffBothZero ==
    Completed =>
        (Outcome = "Succeeded"
           <=> (_prescriptsExitCode = 0
                /\ (~jobData.after_script \/ _afterScriptsExitCode = 0)))

\* C9 as amended: a completed run is Succeeded iff its prescript exit code
\* is 0, whatever its after_script exited with; a non-zero after_script
\* exit code only adds the after_script warning.
C9_SucceededIffPrescriptZero ==
    Completed =>
        /\ Outcome = "Succeeded" <=> _prescriptsExitCode = 0
        /\ (_afterScriptsExitCode > 0) <=>
               (\E i \in DOMAIN stderr : stderr[i].of = "after_script")

\* C9's case: a completed run whose prescripts exited 0 and whose
\* after_script exited non-zero.
C9_Witness ==
    /\ Completed
    /\ jobData.after_script
    /\ _prescriptsExitCode = 0
    /\ _afterScriptsExitCode > 0
    /\ Outcome = "Succeeded"

\* C10: a completed run whose prescripts exit with c > 0 ends WarnedFailure
\* (notice WARN c) iff allowFailure, Failed (notice FAIL c) iff not, with or
\* without an after_script, and writes exactly one prescript notice.
C10_FailOrWarnByAllowFailure ==
    (Completed /\ _prescriptsExitCode > 0) =>
        /\ Outcome = "WarnedFailure" <=> jobData.allowFailure
        /\ Outcome = "Failed" <=> ~jobData.allowFailure
        /\ PrescriptNoticesOf(stderr) =
              << Notice(IF jobData.allowFailure THEN "WARN" ELSE "FAIL",
                        _prescriptsExitCode, "prescript") >>

\* C10's case: a completed run with an after_script whose prescripts
\* failed and were allowed to fail.
C10_Witness ==
    /\ Completed
    /\ _prescriptsExitCode > 0
    /\ jobData.allowFailure
    /\ jobData.after_script
    /\ Outcome = "WarnedFailure"

\* ------------------------------------------------------------------------
\* C11 - C13: the after_script phase, the empty script list
\* ------------------------------------------------------------------------

\* C11: a non-zero after_script exit code is surfaced as a warning and
\* never alters the outcome: a completed run's outcome is that of the run
\* with the same prescript exit code and allowFailure whose after_script
\* exits 0.
C11_AfterScriptNeverAltersOutcome ==
    Completed =>
        /\ Outcome =
              OutcomeOf(PrescriptNotices(~jobData.after_script,
                                         _prescriptsExitCode,
                                         jobData.allowFailure)
                        \o AfterScriptNotices(0))
        /\ _afterScriptsExitCode > 0 =>
              \E i \in DOMAIN stderr :
                  stderr[i] = Notice("WARN", _afterScriptsExitCode,
                                     "after_script")

\* C11's case: a completed run that Failed and whose after_script exited
\* non-zero as well.
C11_Witness ==
    /\ Completed
    /\ _prescriptsExitCode > 0
    /\ ~jobData.allowFailure
    /\ _afterScriptsExitCode > 0
    /\ Outcome = "Failed"

\* C12: when the Job defines after_script and the prescripts have ended
\* with an exit code, 0 or not, allowed to fail or not, start() does not
\* end before it has called execScripts for the after_script; and that
\* call is never made before the prescripts have ended.
C12_AfterScriptAlwaysRuns ==
    /\ (StartEnded /\ jobData.after_script /\ _prescriptsExitCode # Null)
           => phase = "after"
    /\ pc \in { "cleanup", "rm_container", "rm_artifacts", "rm_volume", "end" }
           => (jobData.after_script => phase = "after")
    /\ phase = "after" => (jobData.after_script /\ _prescriptsExitCode # Null)

\* C12's case: the after_script's child process is about to run after
\* prescripts that failed and were not allowed to fail.
C12_Witness ==
    /\ pc = "run"
    /\ phase = "after"
    /\ _prescriptsExitCode > 0
    /\ ~jobData.allowFailure

\* C13: execScripts on an empty script list returns 0 in one step that
\* creates no container and no volume, starts no child process and arms
\* no timer, with an image or without.
C13_EmptyScriptsDoNothing ==
    [][ (pc = "exec" /\ phase = "pre" /\ ~jobData.script)
          => /\ pc' = "return"
             /\ exitCode' = 0
             /\ UNCHANGED << containers, volumes, created, _containerId,
                             _artifactsContainerId, _containerVolumeName,
                             _longRunningSilentTimeout >> ]_vars

\* C13's case: execScripts has returned from the empty prescripts of a
\* job with an image.
C13_Witness ==
    /\ pc = "return"
    /\ phase = "pre"
    /\ ~jobData.script
    /\ jobData.image
    /\ exitCode = 0


\* ------------------------------------------------------------------------
\* RulesSpec
\* ------------------------------------------------------------------------

\* The Job of Spec, not started.
JobIdle ==
    JobInit([ image |-> FALSE, script |-> FALSE, after_script |-> FALSE,
              artifacts |-> FALSE, producers |-> FALSE,
              interactive |-> FALSE, coverage |-> FALSE,
              allowFailure |-> FALSE ])

InitRules ==
    /\ RulesInit
    /\ JobIdle
    /\ SchedIdle
    /\ LaterIdle

NextRules ==
    \/ CallGetRulesResult /\ UNCHANGED << jobVars, schedVars, laterVars >>

RulesSpec == InitRules /\ [][NextRules]_vars

\* ------------------------------------------------------------------------
\* C8: the first matching rule decides
\* ------------------------------------------------------------------------

\* The rules whose `if` evaluates truthy under the scope.
Truthy == { i \in DOMAIN rules :
              evaluateRuleIf(rules[i].if, variables) = "true" }

\* C8: for every rule list and scope, getRulesResult returns the when
\* (default on_success) and allow_failure (default false) of the first
\* rule whose `if` evaluates truthy, and {never, false} when none does.
C8_FirstMatchingRuleWins ==
    ruleResult.called =>
        /\ ~ruleResult.threw
        /\ IF Truthy = {}
           THEN ruleResult = Result("never", FALSE)
           ELSE LET first == CHOOSE i \in Truthy : \A k \in Truthy : i <= k
                IN  /\ ruleResult.when =
                          (IF rules[first].when = "" THEN "on_success"
                           ELSE rules[first].when)
                    /\ ruleResult.allowFailure =
                          (rules[first].allow_failure = "true")


\* ------------------------------------------------------------------------
\* SchedSpec: the scheduler on a pipeline
\* ------------------------------------------------------------------------

InitSched ==
    /\ SchedInit
    /\ JobIdle
    /\ RulesIdle
    /\ LaterIdle

NextSched ==
    \/ \E j \in Jobs : Dispatch(j) /\ UNCHANGED << jobVars, rulesVars, laterVars >>
    \/ \E j \in Jobs : FinishJob(j) /\ UNCHANGED << jobVars, rulesVars, laterVars >>
    \/ Exit /\ UNCHANGED << jobVars, rulesVars, laterVars >>

\* The scheduler keeps dispatching and every started run returns.
SchedSpec == InitSched /\ [][NextSched]_vars /\ WF_vars(NextSched)


\* ------------------------------------------------------------------------
\* C3 - C7: the scheduler
\* ------------------------------------------------------------------------

\* The job's scripts have started.
ScriptsStarted(j) ==
    jstate[j] \in { "Running", "Succeeded", "WarnedFailure", "Failed" }

\* The job has ended, Failed included.
Ended(j) == jstate[j] \in Terminal \cup { "Failed" }

\* C3 as claimed: a Job's scripts never start before all of its
\* predecessors have reached a terminal state.
C3_NoStartBeforeAllPredecessors ==
    \A j \in Jobs :
        ScriptsStarted(j) => \A p \in pipeline[j].preds : Ended(p)

\* C3 as amended: a Job's scripts never start before all of its
\* predecessors, other than the manual jobs that were not explicitly
\* selected, are Succeeded, WarnedFailure or Skipped.
C3_NoStartBeforeBlockingPredecessors ==
    \A j \in Jobs :
        ScriptsStarted(j) =>
            \A p \in pipeline[j].preds :
                ManualUnselected(pipeline, p) \/ jstate[p] \in Terminal

\* C3's case: a job is running, one predecessor has ended and another is
\* a manual job nobody selected.
C3_Witness ==
    \E j \in Jobs :
        /\ jstate[j] = "Running"
        /\ \E p \in pipeline[j].preds : ScriptsStarted(p) /\ Ended(p)
        /\ \E p \in pipeline[j].preds : ManualUnselected(pipeline, p)

\* C4: a selected Job with a predecessor in Failed is marked Skipped and
\* never runs; a predecessor whose script failed with allow_failure true
\* is WarnedFailure, and it neither blocks nor skips its successors: a Job
\* is Skipped only by `when: never` or a predecessor that failed without
\* allow_failure.
C4_FailedSkipsWarnedDoesNot ==
    /\ \A j \in Jobs :
          (Selected(pipeline, j) /\ HasFailedPred(pipeline, jstate, j))
              => jstate[j] = "Skipped"
    /\ \A p \in Jobs :
          (Ended(p) /\ scriptFailed[p] /\ pipeline[p].allowFailure)
              => jstate[p] = "WarnedFailure"
    /\ \A j \in Jobs :
          jstate[j] = "Skipped" =>
              \/ pipeline[j].when = "never"
              \/ \E p \in pipeline[j].preds :
                    scriptFailed[p] /\ ~pipeline[p].allowFailure
    /\ \A j \in Jobs :
          (/\ Selected(pipeline, j)
           /\ pipeline[j].when # "never"
           /\ \A p \in pipeline[j].preds :
                 Ended(p) /\ (scriptFailed[p] => pipeline[p].allowFailure))
              => jstate[j] \notin { "Pending", "Skipped" }

\* C4's case: one job was skipped by a Failed predecessor while another
\* runs after a predecessor that failed with allow_failure.
C4_Witness ==
    /\ \E j \in Jobs :
          /\ jstate[j] = "Skipped"
          /\ pipeline[j].when # "never"
          /\ HasFailedPred(pipeline, jstate, j)
    /\ \E j \in Jobs :
          /\ ScriptsStarted(j)
          /\ \E p \in pipeline[j].preds :
                scriptFailed[p] /\ jstate[p] = "WarnedFailure"

\* C5: when the scheduler exits, its exit status is 0 iff every selected
\* Job is Succeeded, WarnedFailure or Skipped.
C5_ExitStatusZeroIffAllTerminal ==
    exited =>
        (exitStatus = 0
           <=> \A j \in Jobs :
                  Selected(pipeline, j) =>
                      jstate[j] \in { "Succeeded", "WarnedFailure", "Skipped" })

\* C5's case: the scheduler has exited with a non-zero status beside a
\* job that ended WarnedFailure.
C5_Witness ==
    /\ exited
    /\ exitStatus # 0
    /\ \E j \in Jobs : jstate[j] = "Failed"
    /\ \E j \in Jobs : jstate[j] = "WarnedFailure"

\* No job is Running and none is Eligible.
Quiet == \A j \in Jobs : jstate[j] \notin { "Running", "Eligible" }

\* C6: the scheduler eventually exits; it has exited only with no Job
\* Running and none Eligible, exits as soon as that is so, and leaves no
\* selected Job waiting that could still become Eligible.
C6_ExitsExactlyWhenQuiet ==
    /\ <>exited
    /\ [](exited => Quiet)
    /\ []((~exited /\ Quiet) => ENABLED Exit)
    /\ [](exited => \A j \in Jobs : Selected(pipeline, j) => Ended(j))

\* C6's case: the scheduler has exited after a job was skipped and
\* another ran.
C6_Witness ==
    /\ exited
    /\ \E j \in Jobs : jstate[j] = "Skipped" /\ pipeline[j].when # "never"
    /\ \E j \in Jobs : jstate[j] = "Succeeded"

\* C7: a manual Job that was not explicitly selected stays Pending, and a
\* Job that has it as a predecessor is no longer Pending once all of its
\* other predecessors have ended: Eligible (or further) when none of them
\* Failed.
C7_ManualStaysPendingAndDoesNotBlock ==
    /\ \A m \in Jobs :
          ManualUnselected(pipeline, m) => jstate[m] = "Pending"
    /\ \A j \in Jobs :
          (/\ Selected(pipeline, j)
           /\ pipeline[j].when # "never"
           /\ \A p \in pipeline[j].preds :
                 ManualUnselected(pipeline, p) \/ jstate[p] \in Terminal)
              => jstate[j] \in { "Eligible", "Running", "Succeeded",
                                 "WarnedFailure", "Failed" }

\* C7's case: a job is Eligible with a predecessor that has run and a
\* manual predecessor still Pending.
C7_Witness ==
    \E j \in Jobs :
        /\ jstate[j] = "Eligible"
        /\ \E p \in pipeline[j].preds :
              ManualUnselected(pipeline, p) /\ jstate[p] = "Pending"
        /\ \E p \in pipeline[j].preds : ScriptsStarted(p) /\ Ended(p)


\* ------------------------------------------------------------------------
\* The Job constructor
\* ------------------------------------------------------------------------

\* opt.jobData as the constructor reads it: when and allow_failure
\* (Undefined when absent), whether rules is set, interactive,
\* injectSSHAgent, and whether image is set.
CtorDatas ==
    [ when : { Undefined, "manual", "never" },
      allow_failure : { Undefined, "true" },
      hasRules : BOOLEAN,
      interactive : BOOLEAN,
      injectSSHAgent : BOOLEAN,
      image : BOOLEAN ]

\* The rule lists of the constructed jobs: none, or one rule.
CtorRuleLists == { << >> } \cup { << r >> : r \in Rules }

\* The test of line 74 with `or` read as `and`: an interactive job is
\* rejected only when both parts are wrong.
interactiveRejectedOnBoth(when, hasImage) == when # "manual" /\ hasImage

\* Line 74: this.when !== "manual" || this.imageName !== null.
interactiveRejected(when, hasImage) == when # "manual" \/ hasImage

\* What `new Job(opt)` leaves: nothing yet, a Job, or the error thrown.
NotConstructed ==
    [ kind |-> "none", when |-> "", allowFailure |-> FALSE,
      interactive |-> FALSE, injectSSHAgent |-> FALSE, image |-> FALSE,
      message |-> "" ]

CtorError(kind, message) ==
    [ NotConstructed EXCEPT !.kind = kind, !.message = message ]

\* The constructor, lines 46-81.
NewJob(d, rs, vs) ==
    LET when0 == IF d.when = Undefined THEN "on_success" ELSE d.when
        allow0 == d.allow_failure = "true"
        rr == IF d.hasRules THEN getRulesResult(rs, vs)
              ELSE Result(when0, allow0)
    IN  IF rr.threw THEN CtorError("TypeError", "")
        ELSE IF d.interactive /\ interactiveRejected(rr.when, d.image)
        THEN CtorError("ExitError",
                 "@Interactive decorator cannot have image: and must be when:manual")
        ELSE IF d.injectSSHAgent /\ ~d.image
        THEN CtorError("ExitError",
                 "@InjectSSHAgent can only be used with image:")
        ELSE [ kind |-> "Job", when |-> rr.when,
               allowFailure |-> rr.allowFailure,
               interactive |-> d.interactive,
               injectSSHAgent |-> d.injectSSHAgent,
               image |-> d.image, message |-> "" ]

CtorInit ==
    /\ ctorData \in CtorDatas
    /\ rules \in (IF ctorData.hasRules THEN CtorRuleLists ELSE { << >> })
    /\ variables \in Scopes
    /\ ruleResult = NoResult
    /\ job = NotConstructed

Construct ==
    /\ job.kind = "none"
    /\ job' = NewJob(ctorData, rules, variables)
    /\ UNCHANGED << ctorData, rulesVars >>

InitCtor ==
    /\ CtorInit
    /\ JobIdle
    /\ SchedIdle
    /\ NameIdle
    /\ TextIdle
    /\ StagesIdle
    /\ InvIdle
    /\ TimerIdle
    /\ CacheIdle

NextCtor ==
    \/ Construct /\ UNCHANGED << jobVars, schedVars, nameVars, textVars, stageVars,
                      invVars, timerVars, cacheVars >>

CtorSpec == InitCtor /\ [][NextCtor]_vars

\* ------------------------------------------------------------------------
\* C16: the constraints on interactive and injectSSHAgent
\* ------------------------------------------------------------------------

\* The description breaks a constraint, `when` being the value after
\* rule evaluation.
ViolatesConstraint(d, when) ==
    \/ d.interactive /\ ~(when = "manual" /\ ~d.image)
    \/ d.injectSSHAgent /\ ~d.image

\* C16: a Job that is constructed has interactive => (when = manual and
\* no image) and injectSSHAgent => image, with `when` the value after
\* rule evaluation; a description that breaks either constraint is
\* rejected with an ExitError and no Job is constructed.
C16_ConstructedJobsKeepConstraints ==
    LET rr == IF ctorData.hasRules THEN getRulesResult(rules, variables)
              ELSE Result(IF ctorData.when = Undefined THEN "on_success"
                          ELSE ctorData.when, FALSE)
    IN  job.kind # "none" =>
          /\ job.kind = "Job" =>
                /\ job.when = rr.when
                /\ job.interactive => (job.when = "manual" /\ ~job.image)
                /\ job.injectSSHAgent => job.image
          /\ (~rr.threw /\ ViolatesConstraint(ctorData, rr.when))
                => job.kind = "ExitError"
          /\ (ctorData.injectSSHAgent /\ ~ctorData.image) => job.kind # "Job"

\* C16's case: an interactive job with when: manual whose rules turn
\* `when` into something else, rejected.
C16_Witness ==
    /\ job.kind = "ExitError"
    /\ ctorData.interactive
    /\ ctorData.when = "manual"
    /\ ctorData.hasRules
    /\ ~ctorData.image


\* ------------------------------------------------------------------------
\* Utils.safeJobName
\* ------------------------------------------------------------------------

\* Longest job name.
MaxNameLen == 4

\* The characters job names are made of here: two digits and the space.
NameChars == { "0", "4", " " }

JobNames == UNION { [ 1 .. n -> NameChars ] : n \in 1 .. MaxNameLen }

\* charCodeAt of a character (line 104).
charCodeAt(c) ==
    CASE c = "0" -> 48
      [] c = "4" -> 52
      [] c = " " -> 32

\* The characters /[^\w_-]/ does not match (line 100), among NameChars
\* and the encoder's alphabet.
SafeChars ==
    { "0", "1", "2", "3", "4", "5", "6", "7", "8", "9",
      "A", "B", "C", "D", "E", "F", "G", "H", "I", "J", "K", "L", "M",
      "N", "O", "P", "Q", "R", "S", "T", "U", "V", "W", "X", "Y", "Z",
      "_", "-" }

\* The alphabet of base32Encode(buffer, "Crockford").
Crockford ==
    << "0", "1", "2", "3", "4", "5", "6", "7", "8", "9",
       "A", "B", "C", "D", "E", "F", "G", "H", "J", "K", "M", "N",
       "P", "Q", "R", "S", "T", "V", "W", "X", "Y", "Z" >>

\* Two to the power n.
RECURSIVE Pow2(_)
Pow2(n) == IF n = 0 THEN 1 ELSE 2 * Pow2(n - 1)

\* The bits of a byte, most significant first.
ByteBits(b) == [ i \in 1 .. 8 |-> (b \div Pow2(8 - i)) % 2 ]

\* The bytes of the Uint16Array holding the run's code units (lines
\* 101-105), in the byte order of the little-endian hosts node runs on.
RECURSIVE BufferBits(_)
BufferBits(run) ==
    IF run = << >> THEN << >>
    ELSE LET u == charCodeAt(Head(run))
         IN  ByteBits(u % 256) \o ByteBits(u \div 256) \o BufferBits(Tail(run))

\* The value of the first five bits, zeros after the last bit.
Quintet(bits) ==
    LET bit(i) == IF i <= Len(bits) THEN bits[i] ELSE 0
    IN  16 * bit(1) + 8 * bit(2) + 4 * bit(3) + 2 * bit(4) + bit(5)

\* base32Encode(buffer, "Crockford") (line 106): five bits to a
\* character, no padding.
RECURSIVE base32Encode(_)
base32Encode(bits) ==
    IF bits = << >> THEN << >>
    ELSE << Crockford[Quintet(bits) + 1] >>
         \o base32Encode(IF Len(bits) <= 5 THEN << >>
                         ELSE SubSeq(bits, 6, Len(bits)))

\* name.replace(/[^\w_-]+/g, ...) from position i on, `run` being the
\* characters of the match in progress.
RECURSIVE ReplaceRuns(_, _, _)
ReplaceRuns(n, i, run) ==
    LET flush == IF run = << >> THEN << >>
                 ELSE base32Encode(BufferBits(run))
    IN  IF i > Len(n) THEN flush
        ELSE IF n[i] \in SafeChars
        THEN flush \o << n[i] >> \o ReplaceRuns(n, i + 1, << >>)
        ELSE ReplaceRuns(n, i + 1, Append(run, n[i]))

\* Utils.safeJobName(name), lines 99-108.
safeJobName(n) == ReplaceRuns(n, 1, << >>)

NotCalled == << "not called" >>

NameInit ==
    /\ jobName \in JobNames
    /\ safeName = NotCalled

CallSafeJobName ==
    /\ safeName = NotCalled
    /\ safeName' = safeJobName(jobName)
    /\ UNCHANGED jobName

InitName ==
    /\ NameInit
    /\ JobIdle
    /\ RulesIdle
    /\ SchedIdle
    /\ CtorIdle
    /\ TextIdle
    /\ StagesIdle
    /\ InvIdle
    /\ TimerIdle
    /\ CacheIdle

NextName ==
    \/ CallSafeJobName
         /\ UNCHANGED << jobVars, rulesVars, schedVars, ctorVars, textVars,
                         stageVars, invVars, timerVars, cacheVars >>

NameSpec == InitName /\ [][NextName]_vars

\* ------------------------------------------------------------------------
\* C17: safeJobName
\* ------------------------------------------------------------------------

\* C17: safeJobName is injective, and its output consists of characters
\* of [A-Za-z0-9_-] only.
C17_SafeJobNameInjective ==
    safeName # NotCalled =>
        /\ \A i \in DOMAIN safeName : safeName[i] \in SafeChars
        /\ \A other \in JobNames :
              other # jobName => safeJobName(other) # safeName


\* ------------------------------------------------------------------------
\* Utils.expandText
\* ------------------------------------------------------------------------

\* Longest text.
MaxTextLen == 4

\* The characters texts are made of here.
TextChars == { "$", "{", "}", "A", "B" }

Texts == UNION { [ 1 .. n -> TextChars ] : n \in 1 .. MaxTextLen }

\* The characters \w matches, among those of texts and values.
WordChars == { "A", "B", "c" }

\* envs[key] of a name the scope does not hold.
Absent == << "absent" >>

\* The scopes: A absent, empty, "B" or "$B"; B absent or "c".
TextScopes ==
    { [ k \in { << "A" >>, << "B" >> } |-> IF k = << "A" >> THEN a ELSE b ] :
        a \in { Absent, << >>, << "B" >>, << "$", "B" >> },
        b \in { Absent, << "c" >> } }

\* envs[key] (line 122).
Lookup(sc, key) == IF key \in DOMAIN sc THEN sc[key] ELSE Absent

\* The end of the run of \w characters that starts at position i.
RECURSIVE WordEnd(_, _)
WordEnd(t, i) ==
    IF i <= Len(t) /\ t[i] \in WordChars THEN WordEnd(t, i + 1) ELSE i

\* The match of /[$][{]?\w*[}]?/ at the "$" of position i (line 121):
\* where the name starts, where it ends and where the match ends, each
\* the position after.
MatchAt(t, i) ==
    LET from == IF i + 1 <= Len(t) /\ t[i + 1] = "{" THEN i + 2 ELSE i + 1
        to == WordEnd(t, from)
        stop == IF to <= Len(t) /\ t[to] = "}" THEN to + 1 ELSE to
    IN  [ from |-> from, to |-> to, stop |-> stop ]

\* Line 123: sub || match.
Replacement(sub, match) ==
    IF sub = Absent \/ sub = << >> THEN match ELSE sub

\* text.replace(/[$][{]?\w*[}]?/g, ...) from position i on (lines
\* 121-124).
RECURSIVE ReplaceFrom(_, _, _)
ReplaceFrom(t, sc, i) ==
    IF i > Len(t) THEN << >>
    ELSE IF t[i] # "$" THEN << t[i] >> \o ReplaceFrom(t, sc, i + 1)
    ELSE LET m == MatchAt(t, i)
             match == SubSeq(t, i, m.stop - 1)
             sub == Lookup(sc, SubSeq(t, m.from, m.to - 1))
         IN  Replacement(sub, match) \o ReplaceFrom(t, sc, m.stop)

\* Utils.expandText(text, envs) on a string, lines 118-126.
expandText(t, sc) == ReplaceFrom(t, sc, 1)

TextInit ==
    /\ text \in Texts
    /\ scope \in TextScopes
    /\ expanded = NotCalled
    /\ expandedTwice = NotCalled

CallExpandText ==
    /\ expanded = NotCalled
    /\ expanded' = expandText(text, scope)
    /\ UNCHANGED << text, scope, expandedTwice >>

CallExpandTextAgain ==
    /\ expanded # NotCalled
    /\ expandedTwice = NotCalled
    /\ expandedTwice' = expandText(expanded, scope)
    /\ UNCHANGED << text, scope, expanded >>

InitText ==
    /\ TextInit
    /\ JobIdle
    /\ RulesIdle
    /\ SchedIdle
    /\ CtorIdle
    /\ NameIdle
    /\ StagesIdle
    /\ InvIdle
    /\ TimerIdle
    /\ CacheIdle

NextText ==
    \/ CallExpandText
         /\ UNCHANGED << jobVars, rulesVars, schedVars, ctorVars, nameVars,
                         stageVars, invVars, timerVars, cacheVars >>
    \/ CallExpandTextAgain
         /\ UNCHANGED << jobVars, rulesVars, schedVars, ctorVars, nameVars,
                         stageVars, invVars, timerVars, cacheVars >>

TextSpec == InitText /\ [][NextText]_vars

\* ------------------------------------------------------------------------
\* C18, C19: expandText
\* ------------------------------------------------------------------------

\* No value of the scope contains "$".
NoDollarValues ==
    \A k \in DOMAIN scope :
        scope[k] = Absent \/ \A i \in DOMAIN scope[k] : scope[k][i] # "$"

\* C18: for all texts and scopes in which no value contains "$",
\* expandText(expandText(t, s), s) = expandText(t, s).
C18_ExpandTextIdempotent ==
    (expandedTwice # NotCalled /\ NoDollarValues) => expandedTwice = expanded

\* An occurrence of $NAME or ${NAME} at the "$" of position i: where the
\* name starts and ends and where the occurrence ends, each the position
\* after; no occurrence when the name is empty or a brace is not closed.
OccurrenceAt(t, i) ==
    LET braced == i + 1 <= Len(t) /\ t[i + 1] = "{"
        from == IF braced THEN i + 2 ELSE i + 1
        to == WordEnd(t, from)
        closed == to <= Len(t) /\ t[to] = "}"
    IN  [ is |-> to > from /\ (braced => closed),
          from |-> from, to |-> to,
          stop |-> IF braced THEN to + 1 ELSE to ]

\* The text the claim describes: each occurrence of a name the scope
\* holds replaced by its value, the empty value included, every other
\* character kept.
RECURSIVE ClaimedFrom(_, _, _)
ClaimedFrom(t, sc, i) ==
    IF i > Len(t) THEN << >>
    ELSE LET o == OccurrenceAt(t, i)
             sub == Lookup(sc, SubSeq(t, o.from, o.to - 1))
         IN  IF t[i] = "$" /\ o.is /\ sub # Absent
             THEN sub \o ClaimedFrom(t, sc, o.stop)
             ELSE << t[i] >> \o ClaimedFrom(t, sc, i + 1)

\* C19: expandText replaces each occurrence of $NAME or ${NAME} with
\* scope[NAME] whenever NAME is in the scope, the empty value included,
\* leaves the occurrence unchanged when it is not, and changes no other
\* character.
C19_ExpandTextReplacesOccurrences ==
    expanded # NotCalled => expanded = ClaimedFrom(text, scope, 1)


\* ------------------------------------------------------------------------
\* Utils.getJobNamesFromPreviousStages
\* ------------------------------------------------------------------------

\* Job.illegalJobNames, lines 13-17.
illegalJobNames ==
    { "include", "local_configuration", "image", "services", "stages",
      "pages", "types", "before_script", "default", "after_script",
      "variables", "cache", "workflow" }

\* The names whose first character is "." (line 69), among the keys used.
TemplateNames == { ".t" }

\* The keys of gitlabData: three job names, a template and a reserved key.
DataKeys == { "a", "b", "c", ".t", "variables" }

\* The stage list of the pipeline.
stages == << "build", "test", "deploy" >>

NoEntry == "no entry"

\* gitlabData: per key no entry, an entry without stage, or its stage.
GitlabDatas ==
    { g \in [ DataKeys -> { NoEntry, Undefined, "build", "test", "deploy" } ] :
        /\ g[".t"] \in { NoEntry, "build" }
        /\ g["variables"] \in { NoEntry, Undefined } }

\* Utils.forEachRealJob (lines 67-74): the keys the callback is called on.
RealJobNames(g) ==
    { n \in DataKeys :
        g[n] # NoEntry /\ n \notin illegalJobNames /\ n \notin TemplateNames }

\* stages.indexOf(stage), from 0; -1 when the list does not hold it.
indexOf(list, stage) ==
    IF \E i \in DOMAIN list : list[i] = stage
    THEN (CHOOSE i \in DOMAIN list : list[i] = stage) - 1
    ELSE -1

\* Job.stage (lines 108-110): jobData["stage"] || "test".
StageOf(g, n) == IF g[n] = Undefined THEN "test" ELSE g[n]

\* Utils.getJobNamesFromPreviousStages (lines 76-86): line 80 reads
\* jobData.stage as it is written in gitlabData.
getJobNamesFromPreviousStages(g, list, currentStage) ==
    { n \in RealJobNames(g) : indexOf(list, g[n]) < indexOf(list, currentStage) }

NotComputed == { "not computed" }

StagesInit ==
    /\ gitlabData \in GitlabDatas
    /\ currentJob \in RealJobNames(gitlabData)
    /\ previousStages = NotComputed

CallGetJobNamesFromPreviousStages ==
    /\ previousStages = NotComputed
    /\ previousStages' =
          getJobNamesFromPreviousStages(gitlabData, stages,
                                        StageOf(gitlabData, currentJob))
    /\ UNCHANGED << gitlabData, currentJob >>

InitStages ==
    /\ StagesInit
    /\ JobIdle
    /\ RulesIdle
    /\ SchedIdle
    /\ CtorIdle
    /\ NameIdle
    /\ TextIdle
    /\ InvIdle
    /\ TimerIdle
    /\ CacheIdle

NextStages ==
    \/ CallGetJobNamesFromPreviousStages
         /\ UNCHANGED << jobVars, rulesVars, schedVars, ctorVars, nameVars,
                         textVars, invVars, timerVars, cacheVars >>

StagesSpec == InitStages /\ [][NextStages]_vars

\* ------------------------------------------------------------------------
\* C20: the predecessors of a job without needs
\* ------------------------------------------------------------------------

\* C20: for a Job that declares no needs, the computed predecessor set is
\* exactly the set of real jobs whose stage, `test` for a job that
\* declares none, has a strictly smaller index in the stage list than
\* the Job's stage.
C20_PredecessorsAreEarlierStages ==
    previousStages # NotComputed =>
        previousStages =
            { n \in RealJobNames(gitlabData) :
                indexOf(stages, StageOf(gitlabData, n))
                    < indexOf(stages, StageOf(gitlabData, currentJob)) }


\* ------------------------------------------------------------------------
\* One invocation: compilation, selection, staging of artifacts
\* (spec 4.E, 4.F, 7; Job.execScripts lines 387-404 and 460-480)
\* ------------------------------------------------------------------------

\* A job of the invocation: its predecessors and `when` after rule
\* evaluation.  Every job declares artifacts.
InvConfigs(j) ==
    [ preds : SUBSET (1 .. j - 1), when : { "on_success", "never" } ]

RECURSIVE InvPipelinesOf(_)
InvPipelinesOf(n) ==
    IF n = 0 THEN { << >> }
    ELSE { Append(pl, c) : pl \in InvPipelinesOf(n - 1), c \in InvConfigs(n) }

\* The name a job needs that no job of the pipeline has.
InvalidName == "invalid"

\* The message of a need that cannot be found: the missing names and the
\* job that needs them.
MissingNeedMessage(names, j) ==
    << "[ ", names, " ] jobs are needed by ", j, ", but they cannot be found" >>

\* The message of the validation of artifacts on disk.
MissingArtifactsMessage(j) == << "artifacts are missing for ", j >>

\* The names a job needs that no job of the pipeline has: nothing is looked
\* up.
UnknownNeedsIgnored(j) == {}

\* The names a job needs that no job of the pipeline has.
UnknownNeeds(j) == IF missingNeed = j THEN { InvalidName } ELSE {}

\* The selection closed transitively over predecessors.
RECURSIVE Closure(_, _)
Closure(pl, sel) ==
    LET more == sel \cup UNION { pl[j].preds : j \in sel }
    IN  IF more = sel THEN sel ELSE Closure(pl, more)

\* The states in which a job's scripts have been started, or its staging
\* has been.
InvStarted == { "Running", "Succeeded", "Failed", "Crashed" }

\* One pass of the dispatch policy over the Pending jobs.
InvSettleOnce(pl, ex, st) ==
    [ j \in Jobs |->
        IF st[j] # "Pending" THEN st[j]
        ELSE IF \E p \in pl[j].preds \cap ex : st[p] \in { "Failed", "Crashed" }
        THEN "Skipped"
        ELSE st[j] ]

RECURSIVE InvSettle(_, _, _)
InvSettle(pl, ex, st) ==
    LET next == InvSettleOnce(pl, ex, st)
    IN  IF next = st THEN st ELSE InvSettle(pl, ex, next)

InvInit ==
    /\ cfg \in InvPipelinesOf(NJobs)
    /\ missingNeed \in Jobs \cup { 0 }
    /\ selection \in Jobs
    /\ needsFlag \in BOOLEAN
    /\ compile = "pending"
    /\ compileError = << >>
    /\ executed = {}
    /\ cstate = [ j \in Jobs |-> "NotStarted" ]
    /\ artifactDirs \in SUBSET Jobs
    /\ stagingFailed = {}

\* Compilation: an unknown needs target is fatal; without --needs the
\* artifacts of the predecessors outside the selection are validated;
\* otherwise the executed jobs are fixed and their runs created.
CompilePipeline ==
    /\ compile = "pending"
    /\ LET ex == IF needsFlag THEN Closure(cfg, { selection })
                 ELSE { selection }
       IN  IF \E j \in Jobs : UnknownNeeds(j) # {}
           THEN /\ compile' = "failed"
                /\ \E j \in Jobs :
                      /\ UnknownNeeds(j) # {}
                      /\ compileError' = MissingNeedMessage(UnknownNeeds(j), j)
                /\ UNCHANGED << executed, cstate >>
           ELSE IF \E j \in ex : ~((cfg[j].preds \ ex) \subseteq artifactDirs)
           THEN /\ compile' = "failed"
                /\ compileError' = MissingArtifactsMessage(selection)
                /\ UNCHANGED << executed, cstate >>
           ELSE /\ compile' = "ok"
                /\ executed' = ex
                /\ cstate' = [ j \in Jobs |->
                                 IF j \notin ex THEN "NotStarted"
                                 ELSE IF cfg[j].when = "never" THEN "Skipped"
                                 ELSE "Pending" ]
                /\ UNCHANGED compileError
    /\ UNCHANGED << cfg, missingNeed, selection, needsFlag, artifactDirs,
                    stagingFailed >>

\* A Pending job whose predecessors are Succeeded or Skipped is started;
\* execScripts stages the artifacts of each producer (lines 387-404) and
\* throws when a producer's artifact directory does not exist.
InvStart(j) ==
    /\ compile = "ok"
    /\ cstate[j] = "Pending"
    /\ \A p \in cfg[j].preds \cap executed :
          cstate[p] \in { "Succeeded", "Skipped" }
    /\ IF cfg[j].preds \subseteq artifactDirs
       THEN /\ cstate' = [ cstate EXCEPT ![j] = "Running" ]
            /\ UNCHANGED stagingFailed
       ELSE /\ cstate' = InvSettle(cfg, executed,
                                   [ cstate EXCEPT ![j] = "Crashed" ])
            /\ stagingFailed' = stagingFailed \cup { j }
    /\ UNCHANGED << cfg, missingNeed, selection, needsFlag, compile,
                    compileError, executed, artifactDirs >>

\* The scripts of a Running job end; execScripts copies the artifacts to
\* the job's artifact directory whatever the exit code (lines 460-480).
InvFinish(j) ==
    /\ compile = "ok"
    /\ cstate[j] = "Running"
    /\ \E outcome \in { "Succeeded", "Failed" } :
          cstate' = InvSettle(cfg, executed,
                              [ cstate EXCEPT ![j] = outcome ])
    /\ artifactDirs' = artifactDirs \cup { j }
    /\ UNCHANGED << cfg, missingNeed, selection, needsFlag, compile,
                    compileError, executed, stagingFailed >>

InitInv ==
    /\ InvInit
    /\ JobIdle
    /\ RulesIdle
    /\ SchedIdle
    /\ CtorIdle
    /\ NameIdle
    /\ TextIdle
    /\ StagesIdle
    /\ TimerIdle
    /\ CacheIdle

NextInv ==
    \/ /\ CompilePipeline
       /\ UNCHANGED << jobVars, rulesVars, schedVars, ctorVars, nameVars,
                       textVars, stageVars, timerVars, cacheVars >>
    \/ \E j \in Jobs :
          /\ InvStart(j)
          /\ UNCHANGED << jobVars, rulesVars, schedVars, ctorVars, nameVars,
                          textVars, stageVars, timerVars, cacheVars >>
    \/ \E j \in Jobs :
          /\ InvFinish(j)
          /\ UNCHANGED << jobVars, rulesVars, schedVars, ctorVars, nameVars,
                          textVars, stageVars, timerVars, cacheVars >>

InvocationSpec == InitInv /\ [][NextInv]_vars


\* C14: when a job needs a name that no job of the pipeline has, compilation
\* fails with the message "[ <missing names> ] jobs are needed by <job>,
\* but they cannot be found", and no job is started, before or after.
C14_MissingNeedFailsCompilation ==
    missingNeed # 0 =>
        /\ \A j \in Jobs : cstate[j] = "NotStarted"
        /\ executed = {}
        /\ compile # "ok"
        /\ compile = "failed" =>
              compileError = << "[ ", { "invalid" }, " ] jobs are needed by ",
                                missingNeed, ", but they cannot be found" >>

\* A compilation that failed on the need of a job other than the selected
\* one, whose own predecessors exist.
C14_Witness ==
    /\ missingNeed # 0
    /\ missingNeed # selection
    /\ needsFlag
    /\ cfg[selection].preds # {}
    /\ compile = "failed"

\* C15: with --needs, every predecessor of a started job is executed in the
\* invocation and has run and produced its artifact directory before the
\* job stages it, and no staging fails.
C15_NeedsStagingNeverFails ==
    (needsFlag /\ compile = "ok") =>
        /\ \A j \in Jobs :
              cstate[j] \in InvStarted =>
                 \A p \in cfg[j].preds :
                    /\ p \in executed
                    /\ cstate[p] \in { "Succeeded", "Failed" }
                    /\ p \in artifactDirs
        /\ stagingFailed = {}


\* ------------------------------------------------------------------------
\* Spec: the silence timer, cleanup failures, script failures, coverage
\* and the ownership of resources
\* ------------------------------------------------------------------------

\* C21: once start() has finished, by returning or by an error, the
\* silence timer of the Job is not armed (and so writes no
\* "> still running..." line afterwards).
C21_TimerClearedOnEveryExit == StartEnded => ~_longRunningSilentTimeout

\* C25: cleanupResources never propagates a failure: each of its three
\* removals is followed by the next step whether it failed or not, and a
\* removal that was attempted and left its resource in place has written
\* the warning.
C25_CleanupNeverPropagates ==
    [][ /\ pc = "rm_container" =>
              /\ pc' = "rm_artifacts"
              /\ (_containerId # Null /\ containers' = containers)
                    => stderr' = Append(stderr, CleanupWarning)
        /\ pc = "rm_artifacts" =>
              /\ pc' = "rm_volume"
              /\ (_artifactsContainerId # Null /\ containers' = containers)
                    => stderr' = Append(stderr, CleanupWarning)
        /\ pc = "rm_volume" =>
              /\ pc' = "end"
              /\ (_containerVolumeName # NullString /\ volumes' = volumes)
                    => stderr' = Append(stderr, CleanupWarning)
      ]_vars

\* C25's case: cleanupResources has completed although the removal of the
\* primary container failed, and the artifacts container was removed
\* after that failure.
C25_Witness ==
    /\ pc = "end"
    /\ _containerId \in containers
    /\ _artifactsContainerId # Null
    /\ _artifactsContainerId \notin containers
    /\ \E i \in DOMAIN stderr : stderr[i] = CleanupWarning

\* C26: a prescript child process that did not end with the exit status 0
\* (a code > 0, or no code after a signal) is recorded with a prescript
\* exit code > 0 and has a FAIL or WARN notice.
C26_NoSilentScriptFailure ==
    (_prescriptsExitCode # Null /\ childCode # << >> /\ childCode[1] # 0)
        => /\ _prescriptsExitCode > 0
           /\ \E i \in DOMAIN stderr :
                 /\ stderr[i].of = "prescript"
                 /\ stderr[i].kind \in { "FAIL", "WARN" }

\* C27: when start() has returned for a job with `coverage`, a coverage
\* value is recorded, never left null.
C27_CoverageAlwaysRecorded ==
    (Completed /\ jobData.coverage) => _coveragePercent # NullString

\* C28: when cleanupResources is entered, every container and volume that
\* exists on behalf of the Job is referenced by _containerId,
\* _artifactsContainerId or _containerVolumeName.
C28_CreatedResourcesStayReferenced ==
    pc = "cleanup" =>
        /\ containers \subseteq { _containerId, _artifactsContainerId }
        /\ volumes \subseteq { _containerVolumeName }


\* ------------------------------------------------------------------------
\* StagesSpec: the predecessor relation derived from the stages
\* ------------------------------------------------------------------------

\* C29: the predecessor relation computed by getJobNamesFromPreviousStages
\* is irreflexive and has no two jobs that are predecessors of each
\* other: the job is not among its own predecessors, and it is not a
\* predecessor of any of them.
C29_StagePredecessorsAcyclic ==
    previousStages # NotComputed =>
        /\ currentJob \notin previousStages
        /\ \A n \in previousStages :
              currentJob \notin
                  getJobNamesFromPreviousStages(gitlabData, stages,
                                                StageOf(gitlabData, n))


\* ------------------------------------------------------------------------
\* RulesSpec: && and || in one `if`
\* ------------------------------------------------------------------------

\* C24: an `if` of three comparisons joined by a mix of && and || is
\* evaluated strictly left to right with no precedence between the two
\* operators: a || b && c as (a || b) && c.  Stated for a list of one
\* such rule, which matches exactly when its `if` is true.
C24_LeftToRightNoPrecedence ==
    (/\ ruleResult.called
     /\ ~ruleResult.threw
     /\ Len(rules) = 1
     /\ Len(rules[1].if.subs) = 3)
        => LET if == rules[1].if
               v(i) == subEval(if.subs[i], if.spaced /\ i > 1, variables)
                          = "true"
               join(x, op, y) == IF op = "&&" THEN x /\ y ELSE x \/ y
           IN  (ruleResult.when # "never")
                  <=> join(join(v(1), if.ops[1], v(2)), if.ops[2], v(3))


\* ------------------------------------------------------------------------
\* The silence timer (Job.refreshLongRunningSilentTimeout, outFunc)
\* ------------------------------------------------------------------------

\* The 10000 ms of line 490, in units of time of the model.
Timeout == 3

\* Most lines written to one stream.
MaxLines == 3

StillRunning == "> still running..."

\* The streams of the script's child process.
Streams == { "stdout", "stderr" }

\* refreshLongRunningSilentTimeout without the clearTimeout of line 487.
refreshWithoutClear(pending, handle) == pending \cup { Timeout }

\* refreshLongRunningSilentTimeout (lines 486-491): the pending timeouts
\* after clearTimeout of the handle and setTimeout of a new one.
refreshLongRunningSilentTimeout(pending, handle) ==
    (pending \ { handle }) \cup { Timeout }

\* execScripts(), lines 308, 319, 382, 401: a step of provisioning or
\* staging has ended; the timer is refreshed and (but for line 308) a line
\* reports the step on stdout.
Progress ==
    /\ tstate \in { "idle", "running" }
    /\ tstate' = "running"
    /\ timers' = refreshLongRunningSilentTimeout(timers, timeoutHandle)
    /\ timeoutHandle' = Timeout
    /\ sinceEvent' = 0
    /\ \/ /\ tstate = "running"
          /\ Len(stdoutLines) < MaxLines
          /\ stdoutLines' = Append(stdoutLines, "progress")
       \/ UNCHANGED stdoutLines
    /\ UNCHANGED stderrLines

\* outFunc (lines 434-448): the child process has written a line to one
\* of its streams; the timer is refreshed and the line is written to the
\* same stream of writeStreams.
OutFunc(stream) ==
    /\ tstate = "running"
    /\ timers' = refreshLongRunningSilentTimeout(timers, timeoutHandle)
    /\ timeoutHandle' = Timeout
    /\ sinceEvent' = 0
    /\ IF stream = "stdout"
       THEN /\ Len(stdoutLines) < MaxLines
            /\ stdoutLines' = Append(stdoutLines, "output")
            /\ UNCHANGED stderrLines
       ELSE /\ Len(stderrLines) < MaxLines
            /\ stderrLines' = Append(stderrLines, "output")
            /\ UNCHANGED stdoutLines
    /\ UNCHANGED tstate

\* One unit of time passes: every pending timeout has one unit less left;
\* a timeout that is due stays due until its callback runs.
Tick ==
    /\ sinceEvent < Timeout \/ timers \notin { {}, { 0 } }
    /\ sinceEvent' = IF sinceEvent < Timeout THEN sinceEvent + 1 ELSE Timeout
    /\ timers' = { IF t > 0 THEN t - 1 ELSE 0 : t \in timers }
    /\ timeoutHandle' = IF timeoutHandle > 0 THEN timeoutHandle - 1
                        ELSE timeoutHandle
    /\ UNCHANGED << tstate, stdoutLines, stderrLines >>

\* The callback of a due timeout (lines 488-490) writes the line to
\* stdout; the timeout is no longer pending.
TimerFires ==
    /\ 0 \in timers
    /\ Len(stdoutLines) < MaxLines
    /\ stdoutLines' = Append(stdoutLines, StillRunning)
    /\ timers' = timers \ { 0 }
    /\ timeoutHandle' = IF timeoutHandle = 0 THEN Null ELSE timeoutHandle
    /\ UNCHANGED << tstate, sinceEvent, stderrLines >>

\* cleanupResources(), line 227: clearTimeout.
ClearTimeout ==
    /\ tstate = "running"
    /\ tstate' = "ended"
    /\ timers' = timers \ { timeoutHandle }
    /\ timeoutHandle' = Null
    /\ UNCHANGED << sinceEvent, stdoutLines, stderrLines >>

InitTimer ==
    /\ TimerIdle
    /\ JobIdle
    /\ RulesIdle
    /\ SchedIdle
    /\ CtorIdle
    /\ NameIdle
    /\ TextIdle
    /\ StagesIdle
    /\ InvIdle
    /\ CacheIdle

NextTimer ==
    \/ /\ Progress
       /\ UNCHANGED << jobVars, rulesVars, schedVars, ctorVars, nameVars,
                       textVars, stageVars, invVars, cacheVars >>
    \/ \E stream \in Streams :
          /\ OutFunc(stream)
          /\ UNCHANGED << jobVars, rulesVars, schedVars, ctorVars, nameVars,
                          textVars, stageVars, invVars, cacheVars >>
    \/ /\ Tick
       /\ UNCHANGED << jobVars, rulesVars, schedVars, ctorVars, nameVars,
                       textVars, stageVars, invVars, cacheVars >>
    \/ /\ TimerFires
       /\ UNCHANGED << jobVars, rulesVars, schedVars, ctorVars, nameVars,
                       textVars, stageVars, invVars, cacheVars >>
    \/ /\ ClearTimeout
       /\ UNCHANGED << jobVars, rulesVars, schedVars, ctorVars, nameVars,
                       textVars, stageVars, invVars, cacheVars >>

TimerSpec == InitTimer /\ [][NextTimer]_vars


\* ------------------------------------------------------------------------
\* C22: the silence timer is re-armed by every event and writes only
\* after a silence of Timeout
\* ------------------------------------------------------------------------

CacheKeyNames == { "k1", "k2" }

CacheInit ==
    /\ cacheKeys \in [ Jobs -> CacheKeyNames \cup { NullString } ]
    /\ cacheUse = [ j \in Jobs |-> "idle" ]

\* execScripts(), lines 349-378: docker create with the cache directory
\* /tmp/gitlab-ci-local/cache/<key>/<path> of the job's key bound into the
\* container; nothing is locked or waited for.
CacheCreate(j) ==
    /\ cacheUse[j] = "idle"
    /\ cacheUse' = [ cacheUse EXCEPT ![j] = "created" ]
    /\ UNCHANGED cacheKeys

\* execScripts(), line 428: docker start --attach; the container runs.
CacheStart(j) ==
    /\ cacheUse[j] = "created"
    /\ cacheUse' = [ cacheUse EXCEPT ![j] = "running" ]
    /\ UNCHANGED cacheKeys

\* execScripts(), lines 450-458: the container's process exits.
CacheExit(j) ==
    /\ cacheUse[j] = "running"
    /\ cacheUse' = [ cacheUse EXCEPT ![j] = "exited" ]
    /\ UNCHANGED cacheKeys

InitCache ==
    /\ CacheInit
    /\ JobIdle
    /\ RulesIdle
    /\ SchedIdle
    /\ CtorIdle
    /\ NameIdle
    /\ TextIdle
    /\ StagesIdle
    /\ InvIdle
    /\ TimerIdle

\* The Jobs of one invocation run concurrently: their steps interleave.
NextCache ==
    \/ \E j \in Jobs :
          /\ CacheCreate(j)
          /\ UNCHANGED << jobVars, rulesVars, schedVars, ctorVars, nameVars,
                          textVars, stageVars, invVars, timerVars >>
    \/ \E j \in Jobs :
          /\ CacheStart(j)
          /\ UNCHANGED << jobVars, rulesVars, schedVars, ctorVars, nameVars,
                          textVars, stageVars, invVars, timerVars >>
    \/ \E j \in Jobs :
          /\ CacheExit(j)
          /\ UNCHANGED << jobVars, rulesVars, schedVars, ctorVars, nameVars,
                          textVars, stageVars, invVars, timerVars >>

CacheSpec == InitCache /\ [][NextCache]_vars

\* C23: two Jobs that use the same cache key never both have that key's
\* cache directory bound into a running container at the same time.
C23_CacheSerializedPerKey ==
    \A i \in Jobs : \A j \in Jobs \ { i } :
        (cacheKeys[i] # NullString /\ cacheKeys[i] = cacheKeys[j])
            => ~(cacheUse[i] = "running" /\ cacheUse[j] = "running")

=============================================================================
